---- MODULE Spec2Model ----
(***************************************************************************)
(* RedditStoryBot: the narration stage (TTSEngine.run), the final assembly *)
(* stage (make_final_video) with its output naming, and the background    *)
(* clip extraction (extract_subclip), as state machines.                   *)
(*                                                                         *)
(* Times are tenths of a second.  A media file is a record [name, n]: name *)
(* is the fixed part of its file name and n the index formatted into it    *)
(* (0 where the name has none).  `files` maps each narration file that     *)
(* exists to its duration, `origin` to the way it was written.             *)
(***************************************************************************)
EXTENDS Integers, Sequences, FiniteSets, TLC

\* ------------------------------------------------------------------ bounds
\* The most comments reddit_object["comments"] holds.
MaxComments == 3
\* Durations the TTS engine can give the title clip and a comment clip.
TitleDurs == {30, 50}
CommentDurs == {40, 50, 60}
\* A comment longer than the engine's max_chars is synthesised in parts: the
\* most parts the split gives, and the durations of a part's clip.
MaxParts == 2
PartDurs == {80}
\* Values of settings.tts.silence_duration (0.3 s unless configured).
SilenceDurations == {3}
\* Configured values of max_length (TTSEngine.__init__'s argument), 10 s and
\* 60 s.
MaxLengths == {100, 600}

\* Settings of background_audio_volume: 0 disables the mix.
Volumes == {0, 1}
\* DEFUALT_MAX_LENGTH, max_length's default, in seconds.
DEFUALT_MAX_LENGTH == 50

\* Python's None, where the value is otherwise a number >= 0.
None == -1
\* No audio stream yet.
NoAudio == [op |-> "none", file |-> "", bg_volume |-> 0]

\* ------------------------------------------------------------------- files
TitleMp3 == [name |-> "mp3/title.mp3", n |-> 0]
CommentMp3(j) == [name |-> "mp3/{i}.mp3", n |-> j]
TitlePng == [name |-> "png/title.png", n |-> 0]
CommentPng(j) == [name |-> "png/comment_{i}.png", n |-> j]
PostAudioMp3 == [name |-> "mp3/postaudio.mp3", n |-> 0]
PostAudioN(j) == [name |-> "mp3/postaudio-{i}.mp3", n |-> j]
StoryContentPng == [name |-> "png/story_content.png", n |-> 0]
ImgPng(j) == [name |-> "png/img{i}.png", n |-> j]

RECURSIVE SumSeq(_)
SumSeq(s) == IF s = <<>> THEN 0 ELSE Head(s) + SumSeq(Tail(s))

\* range(n) as a sequence: <<0, ..., n-1>>.
Range(n) == [j \in 1..n |-> j - 1]

VARIABLES
    \* reddit_object and settings
    settings,               \* the settings.config values read here
    nComments,              \* len(reddit_object["comments"])
    max_length,             \* TTSEngine.max_length
    \* TTSEngine
    length,                 \* self.length
    idx,                    \* run()'s loop variable (None before the loop)
    k,                      \* position of the enumerate() iterator
    length_at,              \* self.length at each test of the loop, in order
    files,                  \* narration files on disk -> duration
    origin,                 \* narration files on disk -> how they were written
    nparts,                 \* split_post: len(split_text) (0 outside it)
    parts,                  \* split_post: the part clips so far (0: no file)
    \* make_final_video
    number_of_clips,
    audio_clips,            \* the inputs of ffmpeg.concat, in order
    audio_clips_durations,
    image_clips,
    overlays,               \* the overlay chain: <<[image, start, end]>>
    current_time,
    i,                      \* the overlay loop's variable
    audio,                  \* the narration track, ffmpeg.input(audio.mp3)
    final_audio,            \* merge_background_audio's result
    background_mp3,         \* whether assets/temp/<id>/background.mp3 exists
    background_mp4,         \* the frame of background.mp4: [iw, ih]
    thread_title,           \* reddit_obj["thread_title"]
    subreddit,              \* the configured subreddit
    filename,               \* make_final_video's filename
    rendered,               \* the path each render run wrote to, in order
    saved,                  \* the filename handed to save_data
    stat_path,              \* the path handed to os.stat
    dirs,                   \* the result folders the run made sure of
    renders,                \* the render runs submitted: <<[variant, audio, result]>>
    engine_runs,            \* invocations of the transcoding engine so far
    exit_status,            \* the process's exit status (None while it runs)
    console,                \* what the run printed of the engine's stderr
    pc,
    \* extract_subclip, its two reader threads and the ffmpeg child
    returncode,             \* the child's exit status (None while it runs)
    written,                \* lines the child has written: [stdout, stderr]
    reader_done,            \* which reader has met end of file and put None
    q,                      \* the Queue both readers put to
    sentinels,              \* the Nones the main loop has taken off q
    consumed,               \* lines the main loop has taken: [stdout, stderr]
    bar_total,              \* bar.total, in hundredths of a second
    bar_n,                  \* bar.n, in hundredths of a second
    error,                  \* the stderr lines collected
    sub_pc

ttsVars == <<nComments, max_length, length, idx, k, length_at, files, origin,
            nparts, parts>>
clipVars == <<audio_clips, audio_clips_durations, image_clips, overlays,
              current_time, i>>
inVars == <<background_mp3, background_mp4, thread_title, subreddit>>
nameVars == <<filename, rendered, saved, stat_path>>
outVars == <<inVars, dirs, renders, nameVars>>
mfvVars == <<number_of_clips, clipVars, audio, final_audio, outVars,
             engine_runs, exit_status, console>>
subVars == <<returncode, written, reader_done, q, sentinels, consumed,
             bar_total, bar_n, error, sub_pc>>
vars == <<settings, ttsVars, mfvVars, pc, subVars>>

\* ------------------------------------------------------------- TTSEngine
\* run()'s check before each comment: "Stop creating mp3 files if the length
\* is greater than max length."
CapReachedDefault(len, max) == len > 10 * DEFUALT_MAX_LENGTH
CapReached(len, max) == len > max

\* What a call of call_tts comes to: the clip is written and read back, with
\* a duration, or something in the try block raises.
TtsOutcomes(durs) ==
    {[r |-> "ok", d |-> d] : d \in durs} \cup {[r |-> "except", d |-> 0]}
\* split_post only: the sanitised text of the part is blank, the part is
\* skipped.
Blank == [r |-> "blank", d |-> 0]

\* call_tts on self.length: "self.length += clip.duration", and "except:
\* self.length = 0".
LengthAfter(len, o) == IF o.r = "ok" THEN len + o.d ELSE 0

\* call_tts(filename, text) from run(): a call that raises leaves no clip
\* that can be read.
CallTts(file, o) ==
    /\ length' = LengthAfter(length, o)
    /\ IF o.r = "ok"
       THEN /\ files' = (file :> o.d) @@ files
            /\ origin' = (file :> "call_tts") @@ origin
       ELSE UNCHANGED <<files, origin>>

\* The parts at the front of ps whose clips exist.
RECURSIVE OkPrefix(_)
OkPrefix(ps) ==
    IF ps = << >> \/ Head(ps) = 0 THEN << >>
    ELSE <<Head(ps)>> \o OkPrefix(Tail(ps))

\* f with file removed.
Without(f, file) == [x \in DOMAIN f \ {file} |-> f[x]]

\* "ffmpeg -f concat -y ... -i list.txt -c copy {idx}.mp3", its status not
\* looked at.  list.txt names all len(split_text) parts and then silence.mp3.
\* With every part there the result is the parts and the silence.  The
\* engine stops at the first part it cannot open: when that is the first
\* part nothing is written, otherwise {idx}.mp3 is left with what was copied
\* until then, or unusable.
ConcatParts(file, ps, n) ==
    LET front == OkPrefix(ps)
    IN  IF front = << >>
        THEN UNCHANGED <<files, origin>>
        ELSE IF Len(front) = n
        THEN /\ files' = (file :> (SumSeq(front) + settings.silence_duration))
                            @@ files
             /\ origin' = (file :> "concat") @@ origin
        ELSE \E out \in BOOLEAN :
                IF out
                THEN /\ files' = (file :> SumSeq(front)) @@ files
                     /\ origin' = (file :> "concat_front") @@ origin
                ELSE /\ files' = Without(files, file)
                     /\ origin' = Without(origin, file)

\* extract_subclip is not running.
InitSubIdle ==
    /\ returncode = None
    /\ written = [stdout |-> 0, stderr |-> 0]
    /\ reader_done = {}
    /\ q = << >>
    /\ sentinels = 0
    /\ consumed = [stdout |-> 0, stderr |-> 0]
    /\ bar_total = 0
    /\ bar_n = 0
    /\ error = << >>
    /\ sub_pc = "idle"

\* make_final_video's locals before the call.
InitMfv ==
    /\ audio_clips = << >>
    /\ audio_clips_durations = << >>
    /\ image_clips = << >>
    /\ overlays = << >>
    /\ current_time = 0
    /\ i = None
    /\ audio = NoAudio
    /\ final_audio = NoAudio
    /\ dirs = {}
    /\ renders = << >>
    /\ filename = << >>
    /\ rendered = << >>
    /\ saved = << >>
    /\ stat_path = << >>
    /\ engine_runs = << >>
    /\ exit_status = None
    /\ console = << >>

\* One post: a short title, and a background wider than the target frame.
InitPost ==
    /\ thread_title = <<"W", "h", "a", "t">>
    /\ subreddit = <<"a">>
    /\ background_mp4 = [iw |-> 1920, ih |-> 1080]

InitTTS ==
    /\ settings \in [storymode : {FALSE}, storymodemethod : {0},
                     background_audio_volume : {1},
                     enable_extra_audio : {FALSE}, delete_temp_files : {FALSE},
                     silence_duration : SilenceDurations,
                     resolution_w : {1080}, resolution_h : {1920},
                     post_lang : {FALSE}]
    /\ nComments \in 0..MaxComments
    /\ max_length \in MaxLengths
    /\ length = 0
    /\ idx = None
    /\ k = 0
    /\ length_at = << >>
    /\ files = << >>
    /\ origin = << >>
    /\ nparts = 0
    /\ parts = << >>
    /\ number_of_clips = None
    /\ background_mp3 = TRUE
    /\ InitPost
    /\ InitMfv
    /\ InitSubIdle
    /\ pc = "tts_title"

\* run(), up to the loop: call_tts("title", ...).  storymode is off, so the
\* post text is not narrated.
RunTitle ==
    /\ pc = "tts_title"
    /\ \E o \in TtsOutcomes(TitleDurs) : CallTts(TitleMp3, o)
    /\ pc' = "tts_loop"
    /\ UNCHANGED <<subVars, settings, nComments, max_length, idx, k, length_at,
                   nparts, parts, mfvVars>>

\* One iteration of "for idx, comment in enumerate(comments)": the test of
\* the length, then call_tts for a comment of at most max_chars characters
\* and the start of split_post for a longer one.
RunComment ==
    /\ pc = "tts_loop"
    /\ k < nComments
    /\ idx' = k
    /\ length_at' = Append(length_at, length)
    /\ IF CapReached(length, max_length)
       THEN /\ pc' = "tts_return"
            /\ UNCHANGED <<length, files, origin, k, nparts, parts>>
       ELSE /\ k' = k + 1
            /\ \E long \in BOOLEAN :
                IF long
                THEN /\ nparts' \in 1..MaxParts
                     /\ pc' = "tts_split"
                     /\ UNCHANGED <<length, files, origin, parts>>
                ELSE /\ \E o \in TtsOutcomes(CommentDurs) :
                            CallTts(CommentMp3(k), o)
                     /\ pc' = "tts_loop"
                     /\ UNCHANGED <<nparts, parts>>
    /\ UNCHANGED <<subVars, settings, nComments, max_length, mfvVars>>

\* One iteration of split_post's loop over split_text: a blank part is
\* skipped, any other is synthesised and the concat is run; after the last
\* part the part files are unlinked and run()'s loop goes on.
SplitPart ==
    /\ pc = "tts_split"
    /\ \E o \in TtsOutcomes(PartDurs) \cup {Blank} :
        LET ps == Append(parts, o.d)
        IN  /\ IF o = Blank
               THEN UNCHANGED <<length, files, origin>>
               ELSE /\ length' = LengthAfter(length, o)
                    /\ ConcatParts(CommentMp3(idx), ps, nparts)
            /\ IF Len(ps) = nparts
               THEN /\ parts' = << >>
                    /\ nparts' = 0
                    /\ pc' = "tts_loop"
               ELSE /\ parts' = ps
                    /\ UNCHANGED <<nparts, pc>>
    /\ UNCHANGED <<subVars, settings, nComments, max_length, idx, k, length_at,
                   mfvVars>>

\* The iterator is exhausted: idx keeps the last index it was given.
RunExhausted ==
    /\ pc = "tts_loop"
    /\ k = nComments
    /\ pc' = "tts_return"
    /\ UNCHANGED <<subVars, settings, ttsVars, mfvVars>>

\* "return self.length, idx"; the index is make_final_video's number_of_clips
\* ("Index to end at when going through the screenshots").
ReturnedIndexPlusOne == IF idx = None THEN None ELSE idx + 1
ReturnedIndex == idx

RunReturn ==
    /\ pc = "tts_return"
    /\ number_of_clips' = ReturnedIndex
    /\ pc' = "prepare_background"
    /\ UNCHANGED <<subVars, settings, ttsVars, clipVars, audio, final_audio, outVars,
                   engine_runs, exit_status, console>>

\* ------------------------------------------------------ make_final_video
\* An exception nothing catches ends the run with a traceback.
Crash ==
    /\ pc' = "crashed"
    /\ exit_status' = 1

\* get_duration and every engine run read the file: it must exist.
Exists(f) == f \in DOMAIN files
AllExist(clips) == \A j \in 1..Len(clips) : Exists(clips[j])

\* The frames a background clip comes in: wider than the target, and
\* narrower than the crop asks for.
Backgrounds == {[iw |-> 1920, ih |-> 1080], [iw |-> 480, ih |-> 1080]}

\* The filter "crop=ih*(W/H):ih": the width it asks for.  The engine
\* refuses a crop wider than its input.
CropWOfWidth(bg, W, H) == (bg.iw * W) \div H
CropW(bg, W, H) == (bg.ih * W) \div H
CropFits(bg, W, H) == CropW(bg, W, H) <= bg.iw

\* prepare_background: probe the background clip, then crop it with the
\* engine; "except ffmpeg.Error: print(e.stderr); exit(1)".
PrepareBackground ==
    /\ pc = "prepare_background"
    /\ \E r \in {"ok", "MediaReadError", "ffmpeg.Error"} :
        CASE r = "MediaReadError" ->
                /\ Crash
                /\ UNCHANGED <<engine_runs, console>>
          [] \/ r = "ffmpeg.Error"
             \/ ~ CropFits(background_mp4, settings.resolution_w,
                           settings.resolution_h) ->
                /\ engine_runs' = Append(engine_runs, "prepare_background")
                /\ console' = Append(console, "stderr")
                /\ exit_status' = 1
                /\ pc' = "exited"
          [] OTHER ->
                /\ engine_runs' = Append(engine_runs, "prepare_background")
                /\ pc' = "gather"
                /\ UNCHANGED <<exit_status, console>>
    /\ UNCHANGED <<subVars, settings, ttsVars, number_of_clips, clipVars, audio,
                   final_audio, outVars>>

\* "Gather all audio clips": the concat inputs, and outside storymode their
\* durations, the comments' before the title's, the title's put in front.
CommentClipsReversed(n) == [j \in 1..n |-> CommentMp3(n - j)] \o <<TitleMp3>>
CommentClipsShort(n) == <<TitleMp3>> \o [j \in 1..(n - 1) |-> CommentMp3(j - 1)]
CommentClips(n) == <<TitleMp3>> \o [j \in 1..n |-> CommentMp3(j - 1)]
StoryClips(n) == <<TitleMp3>> \o [j \in 1..(n + 1) |-> PostAudioN(j - 1)]

DurationsTitleLast(clips) ==
    [j \in 1..Len(clips) |-> files[clips[IF j = Len(clips) THEN 1 ELSE j + 1]]]
DurationsShifted(clips) == [j \in 1..Len(clips) |-> files[clips[Len(clips) + 1 - j]]]
Durations(clips) == [j \in 1..Len(clips) |-> files[clips[j]]]

GatherAudio ==
    /\ pc = "gather"
    /\ IF settings.storymode
       THEN IF settings.storymodemethod = 0
            THEN /\ audio_clips' = <<TitleMp3, PostAudioMp3>>
                 /\ pc' = "concat"
                 /\ UNCHANGED <<audio_clips_durations, exit_status>>
            ELSE IF number_of_clips = None
                 THEN Crash /\ UNCHANGED <<audio_clips, audio_clips_durations>>
                 ELSE /\ audio_clips' = StoryClips(number_of_clips)
                      /\ pc' = "concat"
                      /\ UNCHANGED <<audio_clips_durations, exit_status>>
       ELSE IF number_of_clips = None
            THEN Crash /\ UNCHANGED <<audio_clips, audio_clips_durations>>
            ELSE /\ audio_clips' = CommentClips(number_of_clips)
                 /\ IF AllExist(CommentClips(number_of_clips))
                    THEN /\ audio_clips_durations' =
                                Durations(CommentClips(number_of_clips))
                         /\ pc' = "concat"
                         /\ UNCHANGED exit_status
                    ELSE Crash /\ UNCHANGED audio_clips_durations
    /\ UNCHANGED <<subVars, settings, ttsVars, number_of_clips, image_clips, overlays,
                   current_time, i, audio, final_audio, outVars, engine_runs,
                   console>>

\* ffmpeg.concat(*audio_clips).output(audio.mp3).run(quiet=True): an engine
\* run outside any try.
ConcatAudio ==
    /\ pc = "concat"
    /\ engine_runs' = Append(engine_runs, "concat")
    /\ \E ok \in BOOLEAN :
        IF ok /\ AllExist(audio_clips)
        THEN pc' = "merge" /\ UNCHANGED exit_status
        ELSE Crash
    /\ UNCHANGED <<subVars, settings, ttsVars, number_of_clips, clipVars, audio,
                   final_audio, outVars, console>>

\* merge_background_audio: the narration as it is when the volume is 0, else
\* amix of it and background.mp3 at that volume.
MergeAlways(a, volume) == [a EXCEPT !.op = "amix", !.bg_volume = volume]
MergeIfPresent(a, volume) ==
    IF volume = 0 \/ ~ background_mp3 THEN a
    ELSE [a EXCEPT !.op = "amix", !.bg_volume = volume]
merge_background_audio(a, volume) ==
    IF volume = 0 THEN a
    ELSE [a EXCEPT !.op = "amix", !.bg_volume = volume]

MergeAudio ==
    /\ pc = "merge"
    /\ audio' = [op |-> "input", file |-> "audio.mp3", bg_volume |-> 0]
    /\ final_audio' = merge_background_audio(audio',
                          settings.background_audio_volume)
    /\ image_clips' = <<TitlePng>>
    /\ current_time' = 0
    /\ pc' = IF settings.storymode THEN "story_durations" ELSE "overlay_loop"
    /\ UNCHANGED <<subVars, settings, ttsVars, number_of_clips, audio_clips,
                   audio_clips_durations, overlays, i, outVars, engine_runs,
                   exit_status, console>>

\* background_clip.overlay(image, enable="between(t,start,end)").
OverlayPadded(image, t, d) == [image |-> image, start |-> t + 20, end |-> t + 20 + d]
OverlayLingering(image, t, d) == [image |-> image, start |-> t, end |-> t + d + 1]
Overlay(image, t, d) == [image |-> image, start |-> t, end |-> t + d]
\* ffmpeg's between(t, a, b): 1 when a <= t <= b.
Visible(o, t) == o.start <= t /\ t <= o.end

\* One iteration of "for i in range(0, number_of_clips + 1)".
OverlayStep ==
    /\ pc = "overlay_loop"
    /\ LET j == IF i = None THEN 0 ELSE i + 1
           clips == Append(image_clips,
                           IF settings.storymode THEN ImgPng(j) ELSE CommentPng(j))
       IN  /\ j <= number_of_clips
           /\ i' = j
           /\ image_clips' = clips
           /\ IF j + 1 > Len(audio_clips_durations)
              THEN Crash /\ UNCHANGED <<overlays, current_time>>
              ELSE /\ overlays' = Append(overlays,
                        Overlay(clips[j + 1], current_time,
                                audio_clips_durations[j + 1]))
                   /\ current_time' = current_time + audio_clips_durations[j + 1]
                   /\ pc' = IF j < number_of_clips THEN "overlay_loop"
                            ELSE IF settings.storymode THEN "overlay_final"
                            ELSE "timeline_done"
                   /\ UNCHANGED exit_status
    /\ UNCHANGED <<subVars, settings, ttsVars, number_of_clips, audio_clips,
                   audio_clips_durations, audio, final_audio, outVars,
                   engine_runs, console>>

\* storymode, before the overlays: the durations of postaudio-0 ..
\* postaudio-(number_of_clips - 1), the title's put in front; with
\* storymodemethod 0 the single overlay then reads image_clips[i], and i has
\* no value there.
StoryDurations(n) == <<files[TitleMp3]>> \o [j \in 1..n |-> files[PostAudioN(j - 1)]]

StoryOverlays ==
    /\ pc = "story_durations"
    /\ IF number_of_clips = None
       THEN Crash /\ UNCHANGED clipVars
       ELSE IF ~ AllExist(<<TitleMp3>> \o [j \in 1..number_of_clips |-> PostAudioN(j - 1)])
       THEN Crash /\ UNCHANGED clipVars
       ELSE /\ audio_clips_durations' = StoryDurations(number_of_clips)
            /\ IF settings.storymodemethod = 0
               THEN /\ image_clips' = <<TitlePng, StoryContentPng>>
                    /\ IF i = None
                       THEN Crash /\ UNCHANGED <<overlays, current_time>>
                       ELSE /\ overlays' = Append(overlays,
                                    Overlay(image_clips'[i + 1], current_time,
                                            audio_clips_durations'[1]))
                            /\ current_time' = current_time + audio_clips_durations'[1]
                            /\ pc' = "timeline_done"
                            /\ UNCHANGED exit_status
               ELSE /\ pc' = "overlay_loop"
                    /\ UNCHANGED <<image_clips, overlays, current_time, exit_status>>
            /\ UNCHANGED <<audio_clips, i>>
    /\ UNCHANGED <<subVars, settings, ttsVars, number_of_clips, audio, final_audio,
                   outVars, engine_runs, console>>

\* storymodemethod 1, after the loop: "grab final image and add it to the
\* video", over the duration of postaudio-<number_of_clips>.
OverlayFinal ==
    /\ pc = "overlay_final"
    /\ IF ~ Exists(PostAudioN(number_of_clips))
       THEN Crash /\ UNCHANGED <<overlays, current_time>>
       ELSE /\ overlays' = Append(overlays,
                    Overlay(ImgPng(number_of_clips), current_time,
                            files[PostAudioN(number_of_clips)]))
            /\ current_time' = current_time + files[PostAudioN(number_of_clips)]
            /\ pc' = "timeline_done"
            /\ UNCHANGED exit_status
    /\ UNCHANGED <<subVars, settings, ttsVars, number_of_clips, audio_clips,
                   audio_clips_durations, image_clips, i, audio, final_audio,
                   outVars, engine_runs, console>>

\* ------------------------------------------------------------ file names
\* A string is a sequence of one-character strings.  The classes of Python's
\* re on the characters used here: \w, \d and \s.
Letters == {"W", "w", "O", "o", "h", "y", "a", "t", "b"}
Digits == {"0", "1", "2"}
WordChars == Letters \cup Digits \cup {"_"}
Spaces == {" "}

\* s[:n].
Take(s, n) == SubSeq(s, 1, IF n < Len(s) THEN n ELSE Len(s))

\* re.sub(r"[^\w\s-]", "", s).
IsWordSpaceHyphen(c) == c \in WordChars \cup Spaces \cup {"-"}
StripSpecial(s) == SelectSeq(s, IsWordSpaceHyphen)

\* A pattern of one-character atoms, each a class, optional ("?") or not.
\* MatchAtoms is the position after the match of atoms at position p of s,
\* or 0 when there is none; an optional atom takes its character first and
\* gives it back if the rest then fails.
One(set) == [set |-> set, opt |-> FALSE]
Opt(set) == [set |-> set, opt |-> TRUE]
RECURSIVE MatchAtoms(_, _, _)
MatchAtoms(s, p, atoms) ==
    IF atoms = << >> THEN p
    ELSE LET a == Head(atoms)
             here == p <= Len(s) /\ s[p] \in a.set
             taken == IF here THEN MatchAtoms(s, p + 1, Tail(atoms)) ELSE 0
         IN  IF a.opt /\ taken = 0 THEN MatchAtoms(s, p, Tail(atoms))
             ELSE taken

\* The position after the longest run of characters of class at p (p itself
\* when there is none).
RECURSIVE RunEnd(_, _, _)
RunEnd(s, p, class) ==
    IF p <= Len(s) /\ s[p] \in class THEN RunEnd(s, p + 1, class) ELSE p

\* Every pattern of name_normalize holds a "/": with none from p on, there
\* is no further match.
NoSlashFrom(s, p) == \A j \in p..Len(s) : s[j] # "/"

\* re.sub(atoms, repl, s): leftmost matches, not overlapping.
RECURSIVE SubAtoms(_, _, _, _)
SubAtoms(s, p, atoms, repl) ==
    IF NoSlashFrom(s, p) THEN SubSeq(s, p, Len(s))
    ELSE LET fin == MatchAtoms(s, p, atoms)
         IN  IF fin > 0 THEN repl \o SubAtoms(s, fin, atoms, repl)
             ELSE <<s[p]>> \o SubAtoms(s, p + 1, atoms, repl)

\* re.sub(r"(C+)\s?\/\s?(C+)", r"\1 word \2", s) for a class C.
Slash == <<Opt(Spaces), One({"/"}), Opt(Spaces)>>
RECURSIVE SubRuns(_, _, _, _)
SubRuns(s, p, class, word) ==
    IF NoSlashFrom(s, p) THEN SubSeq(s, p, Len(s))
    ELSE LET g1 == RunEnd(s, p, class)
             g2 == IF g1 > p THEN MatchAtoms(s, g1, Slash \o <<One(class)>>)
                   ELSE 0
             fin == RunEnd(s, g2, class)
         IN  IF g2 > 0
             THEN SubSeq(s, p, g1 - 1) \o <<" ">> \o word \o <<" ">>
                    \o SubSeq(s, g2 - 1, fin - 1) \o SubRuns(s, fin, class, word)
             ELSE <<s[p]>> \o SubRuns(s, p + 1, class, word)

IsNotReserved(c) == c \notin {"?", "\\", "\"", "%", "*", ":", "|", "<", ">"}
IsNotSlash(c) == c # "/"
WOrComma == {"w", ",", "W"}
OOrComma == {"o", ",", "O", "0"}

\* name_normalize: the six re.sub in order, then the translation's result
\* in place of the name when a post_lang is set.
name_normalize(name, lang, translated_name) ==
    LET n1 == SelectSeq(name, IsNotReserved)
        n2 == SubAtoms(n1, 1, <<One({" "}), One(WOrComma)>> \o Slash
                                \o <<One(OOrComma)>>,
                       <<" ", "w", "i", "t", "h", "o", "u", "t">>)
        n3 == SubAtoms(n2, 1, <<One({" "}), One(WOrComma), Opt(Spaces),
                                One({"/"})>>,
                       <<" ", "w", "i", "t", "h">>)
        n4 == SubRuns(n3, 1, Digits, <<"o", "f">>)
        n5 == SubRuns(n4, 1, WordChars, <<"o", "r">>)
    IN  IF lang THEN translated_name ELSE SelectSeq(n5, IsNotSlash)

\* The clamps of the filename and of the path: [:251].
FilenameCap == 251
PathCap == 251

\* "title = re.sub(...); filename = name_normalize(title)[:251]".
FilenameClampedFirst(title, lang, translated_name) ==
    name_normalize(Take(StripSpecial(title), FilenameCap), lang, translated_name)
Filename(title, lang, translated_name) ==
    Take(name_normalize(StripSpecial(title), lang, translated_name), FilenameCap)

\* defaultPath, and the path a render writes to: path[:251] + ".mp4".
Mp4 == <<".", "m", "p", "4">>
defaultPath == <<"r", "e", "s", "u", "l", "t", "s", "/">> \o subreddit
OnlyTTSDir == defaultPath \o <<"/", "O", "n", "l", "y", "T", "T", "S">>
RenderPath(dir, name) == Take(dir \o <<"/">> \o name, PathCap) \o Mp4
\* save_filename, and the path os.stat is given.
SaveFilename(name) == name \o Mp4
StatPath(dir, save_filename) == dir \o <<"/">> \o save_filename

\* The titles of the posts, the subreddits, and what the translator may
\* return for a name.
MaxTitleLen == 300
Repeat(c, n) == [j \in 1..n |-> c]
LongLens == {233, 234, 251, MaxTitleLen}
Titles ==
    { <<"W", "h", "y", "?", " ", "/", " ", "W", "h", "a", "t", "?">>,
      <<"a", "/", "b">>,
      <<"1", "/", "2", " ", "w", "/", "o", " ", "a", " ", "w", "/", " ", "b">> }
        \cup { Repeat("y", n) : n \in LongLens }
Subreddits == { <<"a">>, <<"A", "s", "k", "R", "e", "d", "d", "i", "t">> }
TranslatedNames == { <<"o", "y">>, Repeat("o", MaxTitleLen) }

\* ------------------------------------------------------------ the renders
allowOnlyTTSFolder ==
    settings.enable_extra_audio /\ settings.background_audio_volume # 0

\* The filename, and the result folders: results/<subreddit>, and OnlyTTS
\* under it when the narration-only variant is wanted.
ResolveOutput ==
    /\ pc = "timeline_done"
    /\ \E translated_name \in TranslatedNames :
        filename' = Filename(thread_title, settings.post_lang, translated_name)
    /\ dirs' = {"results"} \cup (IF allowOnlyTTSFolder THEN {"OnlyTTS"} ELSE {})
    /\ pc' = "render"
    /\ UNCHANGED <<subVars, settings, ttsVars, number_of_clips, clipVars, audio,
                   final_audio, inVars, renders, rendered, saved, stat_path,
                   engine_runs, exit_status, console>>

\* Whether the engine can open every input of the audio stream a.
InputsExist(a) == a.op = "amix" => background_mp3

\* The render driver: the job runs to Completed, or to Failed when the engine
\* exits nonzero, as it does when an input is missing.
ffmpeg_progress_run(a, engine_ok) ==
    IF engine_ok /\ InputsExist(a) THEN "Completed" ELSE "Failed"

\* "except ffmpeg.Error as e: print(e.stderr.decode("utf8")); exit(1)".
OnRenderErrorGoOn(next) ==
    /\ console' = Append(console, "stderr")
    /\ pc' = next
    /\ UNCHANGED exit_status
OnRenderError(next) ==
    /\ console' = Append(console, "stderr")
    /\ exit_status' = 1
    /\ pc' = "exited"

Render(variant, a, path, next) ==
    \E engine_ok \in BOOLEAN :
        LET result == ffmpeg_progress_run(a, engine_ok)
        IN  /\ renders' = Append(renders,
                    [variant |-> variant, audio |-> a, result |-> result])
            /\ rendered' = Append(rendered, path)
            /\ engine_runs' = Append(engine_runs, variant)
            /\ IF result = "Completed"
               THEN /\ pc' = next
                    /\ UNCHANGED <<exit_status, console>>
               ELSE OnRenderError(next)

\* The render to results/<subreddit>/<filename>.mp4, with final_audio.
RenderFinal ==
    /\ pc = "render"
    /\ Render("final", final_audio, RenderPath(defaultPath, filename),
              IF allowOnlyTTSFolder THEN "render_only_tts" ELSE "save")
    /\ UNCHANGED <<subVars, settings, ttsVars, number_of_clips, clipVars, audio,
                   final_audio, inVars, dirs, filename, saved, stat_path>>

\* "if allowOnlyTTSFolder": the render to results/<subreddit>/OnlyTTS, with
\* the narration alone.
RenderOnlyTTS ==
    /\ pc = "render_only_tts"
    /\ Render("OnlyTTS", audio, RenderPath(OnlyTTSDir, filename), "save")
    /\ UNCHANGED <<subVars, settings, ttsVars, number_of_clips, clipVars, audio,
                   final_audio, inVars, dirs, filename, saved, stat_path>>

\* The renders of this run that left a file at path.
Written(path) ==
    \E j \in 1..Len(rendered) :
        rendered[j] = path /\ renders[j].result = "Completed"

\* save_data, the cleanup and os.stat of results/<subreddit>/<save_filename>:
\* the size of the file there, of this run or of an earlier one, or
\* FileNotFoundError.
Finish ==
    /\ pc = "save"
    /\ saved' = SaveFilename(filename)
    /\ stat_path' = StatPath(defaultPath, saved')
    /\ \E stale \in BOOLEAN :
        IF Written(stat_path') \/ stale
        THEN pc' = "done" /\ exit_status' = 0
        ELSE Crash
    /\ UNCHANGED <<subVars, settings, ttsVars, number_of_clips, clipVars, audio,
                   final_audio, inVars, dirs, renders, filename, rendered,
                   engine_runs, console>>

TimelineNext ==
    \/ PrepareBackground
    \/ GatherAudio
    \/ ConcatAudio
    \/ MergeAudio
    \/ OverlayStep

Next ==
    \/ RunTitle
    \/ RunComment
    \/ SplitPart
    \/ RunExhausted
    \/ RunReturn
    \/ TimelineNext

Spec == InitTTS /\ [][Next]_vars

\* make_final_video on its own: any number_of_clips, any narration files, in
\* comment mode and in both story modes.
FinalDurs == {40, 60}
NarrationFiles(storymode) ==
    { IF storymode THEN PostAudioN(j) ELSE CommentMp3(j) : j \in 0..MaxComments }
        \cup {TitleMp3} \cup (IF storymode THEN {PostAudioMp3} ELSE {})

InitFinal ==
    /\ settings \in [storymode : BOOLEAN, storymodemethod : {0, 1},
                     background_audio_volume : Volumes,
                     enable_extra_audio : BOOLEAN, delete_temp_files : {FALSE},
                     silence_duration : SilenceDurations,
                     resolution_w : {1080}, resolution_h : {1920},
                     post_lang : {FALSE}]
    /\ ~ settings.storymode => settings.storymodemethod = 0
    /\ nComments = 0
    /\ max_length = 10 * DEFUALT_MAX_LENGTH
    /\ length = 0
    /\ idx = None
    /\ k = 0
    /\ length_at = << >>
    /\ nparts = 0
    /\ parts = << >>
    /\ \E present \in SUBSET NarrationFiles(settings.storymode) :
        /\ \A f \in present :
            f.n > 0 => [name |-> f.name, n |-> f.n - 1] \in present
        /\ files \in [present -> FinalDurs]
        /\ origin = [f \in present |-> "call_tts"]
    /\ number_of_clips \in {None} \cup 0..MaxComments
    /\ background_mp3 \in BOOLEAN
    /\ background_mp4 \in Backgrounds
    /\ thread_title = <<"W", "h", "a", "t">>
    /\ subreddit = <<"a">>
    /\ InitMfv
    /\ InitSubIdle
    /\ pc = "prepare_background"

NextFinal ==
    \/ TimelineNext
    \/ StoryOverlays
    \/ OverlayFinal
    \/ ResolveOutput
    \/ RenderFinal
    \/ RenderOnlyTTS
    \/ Finish

SpecFinal == InitFinal /\ [][NextFinal]_vars

\* make_final_video for one reply in comment mode, with any of the titles
\* and subreddits, with and without a post_lang.
InitName ==
    /\ settings \in [storymode : {FALSE}, storymodemethod : {0},
                     background_audio_volume : Volumes,
                     enable_extra_audio : BOOLEAN, delete_temp_files : {FALSE},
                     silence_duration : SilenceDurations,
                     resolution_w : {1080}, resolution_h : {1920},
                     post_lang : BOOLEAN]
    /\ nComments = 0
    /\ max_length = 10 * DEFUALT_MAX_LENGTH
    /\ length = 0
    /\ idx = None
    /\ k = 0
    /\ length_at = << >>
    /\ nparts = 0
    /\ parts = << >>
    /\ files = [f \in {TitleMp3, CommentMp3(0)} |-> 40]
    /\ origin = [f \in {TitleMp3, CommentMp3(0)} |-> "call_tts"]
    /\ number_of_clips = 1
    /\ background_mp3 = TRUE
    /\ background_mp4 = [iw |-> 1920, ih |-> 1080]
    /\ thread_title \in Titles
    /\ subreddit \in Subreddits
    /\ InitMfv
    /\ InitSubIdle
    /\ pc = "prepare_background"

NextName ==
    \/ TimelineNext
    \/ ResolveOutput
    \/ RenderFinal
    \/ RenderOnlyTTS
    \/ Finish

SpecName == InitName /\ [][NextName]_vars

\* -------------------------------------------------------- extract_subclip
\* The most lines the child writes to stdout and to stderr.
MaxLines == 3
MaxErrLines == 1
\* ffmpeg.probe's duration of the source, in microseconds.
TotalDurations == {1500000, 3000000}
\* Values of out_time_ms, in microseconds.
OutTimes == {-1000000, 1000000, 2000000}

\* A line of stdout, split at "=": parts[0], and what parts[1] is.
OutTime(us) == [key |-> "out_time_ms", value |-> "number", us |-> us]
StdoutLines ==
    { OutTime(us) : us \in OutTimes }
        \cup { [key |-> "out_time_ms", value |-> "N/A", us |-> 0],
               [key |-> "progress", value |-> "end", us |-> 0],
               [key |-> "progress", value |-> "continue", us |-> 0] }

\* round(us / 1000000.0, 2), in hundredths of a second.
Round2(us) == (us + 5000) \div 10000
Max(a, b) == IF a >= b THEN a ELSE b
\* tqdm's update(n): self.n += n, whatever n's sign.
BarUpdate(n, delta) == n + delta

InitSub ==
    /\ settings = [storymode |-> FALSE, storymodemethod |-> 0,
                   background_audio_volume |-> 0,
                   enable_extra_audio |-> FALSE, delete_temp_files |-> FALSE,
                   silence_duration |-> 3,
                   resolution_w |-> 1080, resolution_h |-> 1920,
                   post_lang |-> FALSE]
    /\ nComments = 0
    /\ max_length = 10 * DEFUALT_MAX_LENGTH
    /\ length = 0
    /\ idx = None
    /\ k = 0
    /\ length_at = << >>
    /\ files = << >>
    /\ origin = << >>
    /\ nparts = 0
    /\ parts = << >>
    /\ number_of_clips = None
    /\ audio_clips = << >>
    /\ audio_clips_durations = << >>
    /\ image_clips = << >>
    /\ overlays = << >>
    /\ current_time = 0
    /\ i = None
    /\ audio = NoAudio
    /\ final_audio = NoAudio
    /\ background_mp3 = FALSE
    /\ InitPost
    /\ dirs = {}
    /\ renders = << >>
    /\ filename = << >>
    /\ rendered = << >>
    /\ saved = << >>
    /\ stat_path = << >>
    /\ engine_runs = << >>
    /\ exit_status = None
    /\ console = << >>
    /\ pc = "idle"
    /\ InitSubIdle

restVars == <<settings, ttsVars, mfvVars, pc>>

\* run_async has started the child; it and the reader threads run on
\* whatever becomes of the main thread.
ChildStarted == sub_pc \in {"loop", "after_loop", "returned", "crashed"}

\* ffmpeg.probe, outside the try, then run_async, the two reader threads and
\* the bar.
Start ==
    /\ sub_pc = "idle"
    /\ \E probed \in BOOLEAN :
        IF probed
        THEN /\ \E total_duration \in TotalDurations :
                    bar_total' = Round2(total_duration)
             /\ sub_pc' = "loop"
        ELSE /\ sub_pc' = "probe_failed"
             /\ UNCHANGED bar_total
    /\ UNCHANGED <<returncode, written, reader_done, q, sentinels, consumed, bar_n,
                   error, restVars>>

\* reader(video.stdout, q): the next line the child wrote goes on the queue.
ReadStdout ==
    /\ ChildStarted
    /\ "stdout" \notin reader_done
    /\ returncode = None
    /\ written.stdout < MaxLines
    /\ \E line \in StdoutLines :
        q' = Append(q, [source |-> "stdout", n |-> written.stdout + 1,
                        line |-> line])
    /\ written' = [written EXCEPT !.stdout = @ + 1]
    /\ UNCHANGED <<returncode, reader_done, sentinels, consumed, bar_total,
                   bar_n, error, sub_pc, restVars>>

\* reader(video.stderr, q).
ReadStderr ==
    /\ ChildStarted
    /\ "stderr" \notin reader_done
    /\ returncode = None
    /\ written.stderr < MaxErrLines
    /\ q' = Append(q, [source |-> "stderr", n |-> written.stderr + 1,
                       line |-> [key |-> "diagnostic", value |-> "", us |-> 0]])
    /\ written' = [written EXCEPT !.stderr = @ + 1]
    /\ UNCHANGED <<returncode, reader_done, sentinels, consumed, bar_total,
                   bar_n, error, sub_pc, restVars>>

\* The child ends, by itself with status 0 or 1 or killed by a signal, and
\* its pipes close.
ChildExits ==
    /\ ChildStarted
    /\ returncode = None
    /\ returncode' \in {0, 1, -9}
    /\ UNCHANGED <<written, reader_done, q, sentinels, consumed, bar_total,
                   bar_n, error, sub_pc, restVars>>

\* A reader meets end of file: "finally: queue.put(None)".
ReaderEnds ==
    /\ returncode # None
    /\ \E r \in {"stdout", "stderr"} \ reader_done :
        /\ reader_done' = reader_done \cup {r}
        /\ q' = Append(q, [source |-> "None", n |-> 0,
                           line |-> [key |-> "", value |-> "", us |-> 0]])
    /\ UNCHANGED <<returncode, written, sentinels, consumed, bar_total, bar_n,
                   error, sub_pc, restVars>>

\* The main loop takes one item off the queue: "for _ in range(2): for
\* source, line in iter(q.get, None)" and its body.
TakeItem ==
    /\ sub_pc = "loop"
    /\ q # << >>
    /\ q' = Tail(q)
    /\ LET item == Head(q)
           line == item.line
       IN  /\ consumed' = IF item.source = "None" THEN consumed
                          ELSE [consumed EXCEPT ![item.source] = item.n]
           /\ CASE item.source = "None" ->
                    /\ sentinels' = sentinels + 1
                    /\ sub_pc' = IF sentinels + 1 = 2 THEN "after_loop" ELSE "loop"
                    /\ UNCHANGED <<bar_n, error>>
             [] item.source = "stderr" ->
                    /\ error' = Append(error, line)
                    /\ UNCHANGED <<sentinels, bar_n, sub_pc>>
             [] OTHER ->
                    IF line.key = "out_time_ms"
                    THEN IF line.value = "number"
                         THEN /\ bar_n' = BarUpdate(bar_n,
                                            Max(Round2(line.us), 0) - bar_n)
                              /\ UNCHANGED <<sentinels, error, sub_pc>>
                         ELSE /\ sub_pc' = "crashed"
                              /\ UNCHANGED <<sentinels, bar_n, error>>
                    ELSE IF line.key = "progress" /\ line.value = "end"
                         THEN /\ bar_n' = BarUpdate(bar_n, bar_total - bar_n)
                              /\ UNCHANGED <<sentinels, error, sub_pc>>
                         ELSE UNCHANGED <<sentinels, bar_n, error, sub_pc>>
    /\ UNCHANGED <<returncode, written, reader_done, bar_total, restVars>>

\* After the loops: bar.update(bar.total); bar.close(); the function returns
\* and its caller reports the clip as chopped.
Returns ==
    /\ sub_pc = "after_loop"
    /\ bar_n' = BarUpdate(bar_n, bar_total)
    /\ sub_pc' = "returned"
    /\ UNCHANGED <<returncode, written, reader_done, q, sentinels, consumed,
                   bar_total, error, restVars>>

NextSub ==
    \/ Start
    \/ ReadStdout
    \/ ReadStderr
    \/ ChildExits
    \/ ReaderEnds
    \/ TakeItem
    \/ Returns

SpecSub == InitSub /\ [][NextSub]_vars

\* ================================================================ claims
\* The timeline is complete: every overlay window has been placed.
TimelineDone == pc = "timeline_done"
\* The cumulative duration of the first j entries of the timeline.
Cumulative(j) == SumSeq(SubSeq(audio_clips_durations, 1, j))
\* The timeline's entries are the title and then the comments 0, 1, ... in
\* the input's order, each over the duration of its clip file.
IsPrefix ==
    /\ Len(audio_clips) <= nComments + 1
    /\ Len(overlays) = Len(audio_clips)
    /\ Len(audio_clips_durations) = Len(audio_clips)
    /\ \A j \in 1..Len(audio_clips) :
        /\ audio_clips[j] = IF j = 1 THEN TitleMp3 ELSE CommentMp3(j - 2)
        /\ overlays[j].image = IF j = 1 THEN TitlePng ELSE CommentPng(j - 2)
        /\ audio_clips_durations[j] = files[audio_clips[j]]
        /\ overlays[j].end - overlays[j].start = files[audio_clips[j]]
\* No clip of the timeline holds only the front parts of its comment.
AllWhole ==
    \A j \in 1..Len(audio_clips) : origin[audio_clips[j]] # "concat_front"
\* run() left its loop through the break, at the comment that became
\* number_of_clips.
StoppedAtCap == length_at[number_of_clips + 1] > max_length

Pacing == [leadIn |-> 10, ttsPad |-> 5, interPad |-> 10, tailPad |-> 10]
correctOffset == 2 * Pacing.ttsPad + Pacing.interPad
\* The cursor when entry j is considered: the end of the window before it.
Cursor(j) == IF j = 1 THEN 0 ELSE overlays[j - 1].end
\* The first j clips of the timeline were each written by one call_tts.
PlainUpTo(j) == \A m \in 1..j : origin[audio_clips[m]] = "call_tts"

\* C2 as stated: a reply is included only if cursor + correctOffset +
\* audioDuration + tailPad <= maxLength, and its window starts at cursor +
\* correctOffset.
C2_Original ==
    TimelineDone =>
        \A j \in 2..Len(overlays) :
            /\ Cursor(j) + correctOffset + audio_clips_durations[j]
                    + Pacing.tailPad <= max_length
            /\ overlays[j].start = Cursor(j) + correctOffset
            /\ overlays[j].end = overlays[j].start + audio_clips_durations[j]

\* C2 as amended: no padding enters the schedule.  A reply is included only
\* if self.length <= max_length when it is considered, and self.length is
\* the cursor when no clip before it comes from a split comment; its window
\* is [cursor, cursor + audioDuration] and the cursor advances by
\* audioDuration; once self.length has passed max_length no further segment
\* is included.
C2_WindowAtCursor ==
    TimelineDone =>
        /\ \A j \in 1..Len(overlays) :
            /\ j > 1 => /\ length_at[j - 1] <= max_length
                        /\ PlainUpTo(j - 1) => length_at[j - 1] = Cursor(j)
            /\ overlays[j].start = Cursor(j)
            /\ overlays[j].end = Cursor(j) + files[audio_clips[j]]
        /\ current_time = Cursor(Len(overlays) + 1)
        /\ Len(overlays) < nComments => StoppedAtCap

C2_Witness ==
    /\ TimelineDone
    /\ Len(overlays) >= 3
    /\ overlays[3].start > 0
    /\ PlainUpTo(2)
    /\ StoppedAtCap

\* The longest clip of the timeline.
RECURSIVE MaxOf(_)
MaxOf(s) ==
    IF s = << >> THEN 0
    ELSE IF Head(s) >= MaxOf(Tail(s)) THEN Head(s) ELSE MaxOf(Tail(s))

\* C3 as stated: the timeline's total duration never exceeds max_length plus
\* one segment's 2*ttsPad + interPad + duration, taking the longest segment
\* of the timeline.
C3_TotalWithinOneSegment ==
    TimelineDone =>
        current_time <= max_length + correctOffset + MaxOf(audio_clips_durations)

\* Title 3 s, replies 4 s and 6 s, max_length 60 s.
Scenario5 ==
    /\ nComments = 2
    /\ max_length = 600
    /\ files = (TitleMp3 :> 30) @@ (CommentMp3(0) :> 40) @@ (CommentMp3(1) :> 60)
    /\ \A f \in DOMAIN origin : origin[f] = "call_tts"

Scenario6 ==
    /\ nComments = 2
    /\ max_length = 100
    /\ files = (TitleMp3 :> 50) @@ (CommentMp3(0) :> 50) @@ (CommentMp3(1) :> 50)
    /\ \A f \in DOMAIN origin : origin[f] = "call_tts"

Instants == 0..current_time
InWindowBounds(o) == 0 <= o.start /\ o.end <= current_time

\* C7 as stated: windows are ordered, as long as their clips, within
\* [0, total], and consecutive windows share no instant.
C7_Original ==
    TimelineDone =>
        /\ \A j \in 1..Len(overlays) :
            /\ overlays[j].end >= overlays[j].start + audio_clips_durations[j]
            /\ InWindowBounds(overlays[j])
        /\ \A j \in 1..(Len(overlays) - 1) :
            /\ overlays[j].start < overlays[j + 1].start
            /\ ~ \E t \in Instants :
                    Visible(overlays[j], t) /\ Visible(overlays[j + 1], t)

\* C7 as amended: windows are ordered, exactly as long as their clips and
\* within [0, total]; consecutive windows are adjacent, so the two images
\* are both enabled at the one instant where the first ends and the next
\* starts, and at no other.
C7_AdjacentWindows ==
    TimelineDone =>
        /\ \A j \in 1..Len(overlays) :
            /\ overlays[j].end = overlays[j].start + audio_clips_durations[j]
            /\ InWindowBounds(overlays[j])
        /\ \A j \in 1..(Len(overlays) - 1) :
            /\ overlays[j].start < overlays[j + 1].start
            /\ \A t \in Instants :
                (Visible(overlays[j], t) /\ Visible(overlays[j + 1], t))
                    <=> t = overlays[j].end

C7_Witness ==
    /\ TimelineDone
    /\ Len(overlays) >= 2
    /\ Visible(overlays[1], overlays[1].end)
    /\ Visible(overlays[2], overlays[1].end)

\* The image that belongs to a narration clip: the screenshot of the same
\* segment.
ImageOf(f) ==
    IF f = TitleMp3 THEN TitlePng
    ELSE IF f.name = CommentMp3(0).name THEN CommentPng(f.n)
    ELSE ImgPng(f.n)
\* Where clip j starts in the gapless concatenation of audio_clips.
AudioStart(j) == SumSeq([m \in 1..(j - 1) |-> files[audio_clips[m]]])

\* C4: every narration clip of the concatenated track has one overlay window,
\* showing the image of the same segment from the instant the clip starts in
\* the track to the instant it ends.
C4_WindowsFollowAudio ==
    TimelineDone =>
        /\ Len(overlays) = Len(audio_clips)
        /\ \A j \in 1..Len(overlays) :
            /\ overlays[j].image = ImageOf(audio_clips[j])
            /\ overlays[j].start = AudioStart(j)
            /\ overlays[j].end = AudioStart(j) + files[audio_clips[j]]

C4_Witness ==
    /\ TimelineDone
    /\ Len(overlays) >= 3
    /\ overlays[3].start = files[audio_clips[1]] + files[audio_clips[2]]

\* Both variants are wanted, and the music-mixed render was submitted and
\* failed.
MixedRenderFailed ==
    /\ allowOnlyTTSFolder
    /\ Len(renders) >= 1
    /\ renders[1].variant = "final"
    /\ renders[1].result = "Failed"
OnlyTTSSubmitted == \E j \in 1..Len(renders) : renders[j].variant = "OnlyTTS"
RunOver == pc \in {"done", "exited", "crashed"}

\* C10 as stated: when both variants are wanted, a failed music-mixed render
\* does not keep the narration-only render from being submitted.
C10_Original == (MixedRenderFailed /\ RunOver) => OnlyTTSSubmitted

\* C10 as amended: the two variants are two render runs in sequence; a failed
\* music-mixed render prints the engine's stderr and ends the process with
\* status 1, so the narration-only render is submitted only after the
\* music-mixed render has completed.
C10_SecondRenderNeedsFirst ==
    /\ MixedRenderFailed =>
        /\ pc = "exited"
        /\ exit_status = 1
        /\ console # << >> /\ console[Len(console)] = "stderr"
        /\ ~ OnlyTTSSubmitted
    /\ OnlyTTSSubmitted =>
        /\ allowOnlyTTSFolder
        /\ Len(renders) = 2
        /\ renders[1].variant = "final" /\ renders[1].result = "Completed"
        /\ renders[1].audio = final_audio
        /\ renders[2].audio = audio

C10_Witness == MixedRenderFailed /\ RunOver /\ background_mp3
\* C8 as stated: the progress the driver shows never decreases, whatever the
\* order of the out_time_ms tokens.
C8_ProgressMonotone == [][bar_n' >= bar_n]_vars

\* extract_subclip is over: it returned to its caller, or left through
\* "except ffmpeg.Error: print(error); sys.exit(1)".
DriverCompleted == sub_pc = "returned"
DriverFailed == sub_pc = "exited"

\* C9 as stated: when the child exits with a nonzero status or is killed, the
\* driver ends Failed, handing the collected stderr to its caller, and never
\* reports the run as completed.
C9_NonzeroExitFails ==
    (returncode # None /\ returncode # 0 /\ (DriverCompleted \/ DriverFailed))
        => DriverFailed

\* A music volume is configured and background.mp3 is not there.
MusicMissing == settings.background_audio_volume # 0 /\ ~ background_mp3
\* merge_background_audio has returned.
Merged == final_audio # NoAudio

\* C11 as stated: with a nonzero volume and no background.mp3 the mix is
\* skipped with a warning, the track is the narration alone and no render
\* fails for want of the music.
C11_Original ==
    (MusicMissing /\ Merged) =>
        /\ final_audio = audio
        /\ \A j \in 1..Len(renders) : InputsExist(renders[j].audio)

\* C11 as amended: with a nonzero volume the track is always the mix of the
\* narration and background.mp3, whether the file is there or not; without
\* the file the music-mixed render fails, the engine's stderr is printed and
\* the process ends with status 1, no result saved.
C11_MissingMusicFailsRender ==
    (MusicMissing /\ Merged) =>
        /\ final_audio = [audio EXCEPT !.op = "amix",
                            !.bg_volume = settings.background_audio_volume]
        /\ pc \notin {"render_only_tts", "save", "done"}
        /\ renders # << >> =>
            /\ renders = << [variant |-> "final", audio |-> final_audio,
                             result |-> "Failed"] >>
            /\ pc = "exited"
            /\ exit_status = 1
            /\ console # << >> /\ console[Len(console)] = "stderr"

C11_Witness == MusicMissing /\ renders # << >> /\ pc = "exited"

\* C12: with volume 0 merge_background_audio returns the narration track it
\* was given: no amix, no input besides audio.mp3, so the renders do not
\* depend on background.mp3.
C12_VolumeZeroUnchanged ==
    (settings.background_audio_volume = 0 /\ Merged) =>
        /\ final_audio = audio
        /\ final_audio = [op |-> "input", file |-> "audio.mp3", bg_volume |-> 0]
        /\ InputsExist(final_audio)
        /\ \A j \in 1..Len(renders) : renders[j].audio = audio

C12_Witness ==
    /\ settings.background_audio_volume = 0
    /\ ~ background_mp3
    /\ Len(renders) = 1
    /\ renders[1].result = "Completed"
    /\ pc = "done"

\* The narration files whose duration make_final_video reads: the title's,
\* and those of the first number_of_clips replies or story parts.
DurationReads ==
    {TitleMp3} \cup
        { IF settings.storymode THEN PostAudioN(j) ELSE CommentMp3(j) :
            j \in 0..(number_of_clips - 1) }
NarrationUnreadable ==
    number_of_clips # None /\ \E f \in DurationReads : f \notin DOMAIN files
\* The run has ended at such a read: in comment mode while gathering the
\* clips, in storymode after the merge.
ReadFailed ==
    /\ NarrationUnreadable
    /\ pc = "crashed"
    /\ IF settings.storymode THEN audio # NoAudio
       ELSE audio_clips # << >> /\ audio_clips_durations = << >>

\* C13, as stated: when the duration of a narration file cannot be read, the
\* run aborts before any invocation of the transcoding engine.
C13_Original == ReadFailed => engine_runs = << >>

\* C13: when the duration of a narration file cannot be read, the run aborts
\* before anything is rendered; the engine has by then prepared the
\* background, and in storymode concatenated the narration too, and in
\* comment mode it is not invoked after the failed read.
C13_AbortsBeforeRender ==
    NarrationUnreadable =>
        /\ renders = << >>
        /\ pc \notin {"timeline_done", "render", "render_only_tts", "save", "done"}
        /\ engine_runs \in {<< >>, <<"prepare_background">>,
                            <<"prepare_background", "concat">>}
        /\ ~ settings.storymode =>
                /\ pc \in {"prepare_background", "gather", "crashed", "exited"}
                /\ "concat" \notin {engine_runs[j] : j \in 1..Len(engine_runs)}
        /\ ReadFailed => engine_runs # << >>
C13_Witness ==
    /\ ReadFailed
    /\ ~ settings.storymode
    /\ engine_runs = <<"prepare_background">>

\* The crop to the target aspect is wider than the background's frame.
CropOutOfFrame ==
    (background_mp4.ih * settings.resolution_w) \div settings.resolution_h
        > background_mp4.iw
PreparationOver == pc # "prepare_background"

\* C14, as stated: with a crop out of the frame, background preparation
\* fails with an error raised before the engine is invoked.
C14_Original ==
    (CropOutOfFrame /\ PreparationOver) =>
        /\ pc = "crashed"
        /\ engine_runs = << >>

\* C14: with a crop out of the frame, background preparation fails, and
\* nothing validates the crop beforehand: unless the background's duration
\* could not be read, the engine is invoked and it is its error that ends
\* the run, stderr printed and exit status 1.
C14_EngineRejectsCrop ==
    (CropOutOfFrame /\ PreparationOver) =>
        /\ exit_status = 1
        /\ audio_clips = << >>
        /\ renders = << >>
        /\ \/ /\ pc = "crashed"
              /\ engine_runs = << >>
              /\ console = << >>
           \/ /\ pc = "exited"
              /\ engine_runs = <<"prepare_background">>
              /\ console = <<"stderr">>
C14_Witness ==
    /\ CropOutOfFrame
    /\ pc = "exited"
    /\ engine_runs = <<"prepare_background">>

\* The output names have been resolved.
Resolved == pc \in {"render", "render_only_tts", "save", "done"} \/ rendered # << >>
\* What the text transformations make of the title: the sanitized and
\* normalized title, or with a post_lang a translation of it.
Transformed ==
    { name_normalize(StripSpecial(thread_title), settings.post_lang, t) :
        t \in TranslatedNames }
\* A path without its directories and its extension.
RECURSIVE Basename(_)
Basename(path) ==
    IF \E j \in 1..Len(path) : path[j] = "/"
    THEN Basename(Tail(path))
    ELSE path
Stem(path) == SubSeq(Basename(path), 1, Len(Basename(path)) - 4)

\* C15: the output filename without its extension never exceeds 251
\* characters, and is the first 251 characters of the title as it is after
\* sanitization, normalization and translation, whatever the title's length.
C15_ClampedAfterTransformations ==
    /\ Len(filename) <= 251
    /\ \A j \in 1..Len(rendered) : Len(Stem(rendered[j])) <= 251
    /\ saved # << >> => Len(saved) <= 251 + 4
    /\ Resolved =>
            \E name \in Transformed :
                /\ Len(filename) = (IF Len(name) < 251 THEN Len(name) ELSE 251)
                /\ filename = SubSeq(name, 1, Len(filename))
C15_Witness ==
    /\ settings.post_lang
    /\ Len(thread_title) < 251
    /\ Len(filename) = 251
    /\ rendered # << >>
    /\ Len(Stem(rendered[1])) > 200

\* C16: for the title "Why? / What?" the filename has the slash between
\* the two words resolved to "or" and the question marks removed.
WhyWhat == <<"W", "h", "y", "?", " ", "/", " ", "W", "h", "a", "t", "?">>
C16_SlashBecomesOr ==
    (thread_title = WhyWhat /\ ~ settings.post_lang /\ Resolved) =>
        filename = <<"W", "h", "y", " ", "o", "r", " ", "W", "h", "a", "t">>

\* C20: the path the final render writes to is the path recorded by
\* save_data and read by os.stat, results/<subreddit>/<filename>.mp4, for
\* every title and subreddit.
C20_StatReadsRendered ==
    stat_path # << >> =>
        /\ rendered[1] = stat_path
        /\ stat_path = <<"r", "e", "s", "u", "l", "t", "s", "/">> \o subreddit
                            \o <<"/">> \o saved
        /\ Written(stat_path)

\* The lines of a stream waiting on the queue, and the streams.
Streams == {"stdout", "stderr"}
Waiting(stream) == SelectSeq(q, LAMBDA item : item.source = stream)
\* The lines of each stream reach the loop in the order they were read,
\* none skipped: those waiting follow the last one taken.
TakenInOrder ==
    \A stream \in Streams :
        /\ \A j \in 1..Len(Waiting(stream)) :
                Waiting(stream)[j].n = consumed[stream] + j
        /\ consumed[stream] + Len(Waiting(stream)) = written[stream]
\* The driver's loop is over, by either way out of it.
LoopOver == sub_pc \in {"after_loop", "returned", "crashed"}

\* C17: the loop consumes every line either reader published, those of one
\* stream in the order they were read, and is over exactly when both
\* readers have signalled the end of their stream.
C17_LoopDrainsBothStreams ==
    /\ TakenInOrder
    /\ LoopOver =>
            /\ reader_done = Streams
            /\ sentinels = 2
            /\ consumed = written
    /\ sentinels = 2 => LoopOver

\* C18: the bar's position never exceeds its total, and is the total once
\* extract_subclip has returned.
C18_BarWithinTotal ==
    /\ bar_n <= bar_total
    /\ sub_pc = "returned" => bar_n = bar_total

\* The durations of the clips call_tts has produced, while every one of
\* them is a clip of its own (no reply has been split).
ProducedDuration(file) == IF file \in DOMAIN files THEN files[file] ELSE 0
ProducedSum ==
    ProducedDuration(TitleMp3)
        + SumSeq([j \in 1..nComments |-> ProducedDuration(CommentMp3(j - 1))])
NoSplit == nparts = 0 /\ \A f \in DOMAIN origin : origin[f] = "call_tts"

\* C19: self.length is the sum of the durations of the clips produced so
\* far, and never decreases.
C19_LengthIsSumOfClips ==
    /\ [](NoSplit => length = ProducedSum)
    /\ [][length' >= length]_vars

\* The overlays are being built, or have been: the narration track is
\* there and nothing has been rendered; and every narration file the stage
\* reads is there.
OverlayStage == audio # NoAudio /\ renders = << >>
NarrationComplete == number_of_clips # None /\ ~ NarrationUnreadable
\* Title first, each window starting where the one before it ends.
ChainedTitleFirst ==
    /\ overlays # << >>
    /\ overlays[1].image = TitlePng
    /\ overlays[1].start = 0
    /\ \A j \in 2..Len(overlays) : overlays[j].start = overlays[j - 1].end

\* C21: in comment mode and in both story modes the overlay chain is built
\* without error, title first and chained, with one window per narration
\* clip of the concatenated track, as long as that clip.
C21_ChainBuiltInEveryMode ==
    /\ (OverlayStage /\ NarrationComplete) => pc # "crashed"
    /\ TimelineDone =>
            /\ ChainedTitleFirst
            /\ Len(overlays) = Len(audio_clips)
            /\ \A j \in 1..Len(overlays) :
                    overlays[j].end - overlays[j].start = files[audio_clips[j]]

\* The replies whose clip file the run has produced, and the run being over
\* with its index handed on.
ProducedComments == { j \in 0..(nComments - 1) : CommentMp3(j) \in DOMAIN files }
RunReturned == pc \notin {"tts_title", "tts_loop", "tts_split", "tts_return"}

\* C22: the index run() returns is the number of comment clips produced,
\* however the loop ended: the clips 0 .. index-1 are the ones produced.
C22_IndexCountsCommentClips ==
    RunReturned =>
        /\ number_of_clips = Cardinality(ProducedComments)
        /\ ProducedComments = 0..(number_of_clips - 1)
====
